---- MODULE Spec2Model ----
(***************************************************************************)
(* A model of picire's sequential delta debugger: AbstractDD.ddmin         *)
(* (src/picire/abstract_dd.py) driving LightDD's reduce step               *)
(* (src/picire/light_dd.py).                                               *)
(*                                                                         *)
(* ddmin keeps the working configuration as a list of units and the        *)
(* partition as a list of slices; LightDD's reduce methods are written     *)
(* over "subsets" (the unit lists the slices select).  The model joins     *)
(* the two through Subsets(config, slices): the i-th subset is config[s]   *)
(* for the i-th slice s, and a list of subsets returned by a reduce        *)
(* method is the list of the slices that select them.                      *)
(* LightDD._reduce_config as written declares (run, subsets,               *)
(* complement_offset) while ddmin passes (run, config, slices,             *)
(* complement_offset); SpecAsWritten models that call as Python runs it.   *)
(*                                                                         *)
(* The tester (self._test) is an arbitrary deterministic function of the   *)
(* configuration.  It is revealed lazily: `oracle` holds the verdicts       *)
(* given so far, a configuration asked again gets the recorded verdict,    *)
(* a new one gets any value of oracleValues.                               *)
(*                                                                         *)
(* config_splitters, config_iterators and outcome_cache are modules of     *)
(* the repository whose source is not part of the modelled files; zeller,  *)
(* forward, backward, lookup and add follow their documented contracts.    *)
(***************************************************************************)
EXTENDS Integers, Sequences, FiniteSets, TLC

\* Bounds of the model.
MaxLen == 4          \* longest initial configuration
MaxRatio == 3        \* largest split ratio n
MaxRun == 12         \* cap of the run counter (itertools.count() is unbounded)
MaxInvocations == 2  \* how often the caller invokes ddmin on one object
MaxInteresting == 2  \* most units of an "interesting" multiset
MaxMalformed == 1    \* how often the tester may break the PASS/FAIL contract

\* Test outcomes (abstract_dd.py:22-23); UNKNOWN is a value outside the contract.
PASS == "PASS"
FAIL == "FAIL"
UNKNOWN == "UNKNOWN"
\* Python's None, as the result of a cache lookup.
None == "None"
\* Python's None, as an item yielded by a config iterator.
NoneIndex == 0 - 1
\* Python's None, as the list of slices returned by a reduce method; a list
\* that is returned is wrapped: Some(l) = <<l>>.
NoSlices == << >>
Some(l) == << l >>

VARIABLES
    config0,             \* the configuration the caller passes to ddmin
    n,                   \* the split ratio the caller passes to ddmin
    subset_first,        \* LightDD.__init__ parameters
    subset_iterator,
    complement_iterator,
    id_prefix,
    oracleValues,        \* the values self._test may return
    oracle,              \* verdicts of self._test revealed so far
    cache,               \* self._cache: configuration content -> outcome
    config,              \* ddmin locals
    slices,
    complement_offset,   \* a rational <<numerator, denominator>>
    run,
    next_slices,
    pc,                  \* "assert", "reduce", "update", "done", "aborted"
    phase,               \* 1: self._first_reduce, 2: self._second_reduce
    it,                  \* position in the items the iterator yields
    log,                 \* calls of self._test in this invocation, in order
    probes,              \* subset/complement probes of the current run
    reductions,          \* the reduce steps of this invocation that returned slices
    splitCalls,          \* calls of self._split in this invocation
    invocation,          \* number of the current ddmin invocation
    returned             \* configurations returned by the invocations so far

params == <<config0, n, subset_first, subset_iterator, complement_iterator,
            id_prefix, oracleValues>>
locals == <<config, slices, complement_offset, run, next_slices>>
vars == <<config0, n, subset_first, subset_iterator, complement_iterator,
          id_prefix, oracleValues, oracle, cache, config, slices,
          complement_offset, run, next_slices, pc, phase, it, log, probes,
          reductions, splitCalls, invocation, returned>>

----------------------------------------------------------------------------
\* Helpers over sequences and numbers.

Min(a, b) == IF a < b THEN a ELSE b

RECURSIVE Gcd(_, _)
Gcd(a, b) == IF b = 0 THEN a ELSE Gcd(b, a % b)

\* A rational in lowest terms.
Rat(num, den) == LET g == Gcd(num, den) IN <<num \div g, den \div g>>

RECURSIVE Concat(_)
Concat(ss) == IF ss = << >> THEN << >> ELSE Head(ss) \o Concat(Tail(ss))

\* s without its k-th element (k from 1).
RemoveAt(s, k) == SubSeq(s, 1, k - 1) \o SubSeq(s, k + 1, Len(s))

RECURSIVE IsSubsequence(_, _)
IsSubsequence(a, b) ==
    IF a = << >> THEN TRUE
    ELSE IF b = << >> THEN FALSE
    ELSE IF Head(a) = Head(b) THEN IsSubsequence(Tail(a), Tail(b))
    ELSE IsSubsequence(a, Tail(b))

\* Units are opaque to the engine: only their equality pattern matters, so
\* initial configurations are taken up to renaming of units (the first unit
\* is 1, a new unit is the least number not used yet).
Configs ==
    { c \in UNION { [1..k -> 1..k] : k \in 0..MaxLen } :
        \A i \in DOMAIN c :
            \/ c[i] = 1
            \/ \E j \in 1..(i - 1) : c[j] = c[i] - 1 }

----------------------------------------------------------------------------
\* Config ids: tuples of tokens, 'r%d', 's%d', 'c%d' and 'assert'.

Tok(tag, num) == [tag |-> tag, num |-> num]
AssertTok == Tok("assert", 0)

\* (mutant: no id is taken for an assertion's)
HasAssertNever(config_id) == FALSE

\* 'assert' in config_id
HasAssert(config_id) == \E k \in DOMAIN config_id : config_id[k] = AssertTok

\* id_prefix: the default, and a prefix that holds the token 'assert'
IdPrefixes == { << >>, << AssertTok >> }

----------------------------------------------------------------------------
\* config_splitters.zeller(n, k): k contiguous slices of [0, n), the i-th
\* taking 1/(k-i)-th of what is left (integer division).

RECURSIVE zellerStop(_, _, _)
zellerStop(len, k, i) ==
    LET start == IF i = 0 THEN 0 ELSE zellerStop(len, k, i - 1)
    IN  start + ((len - start) \div (k - i))

zeller(len, k) ==
    [ i \in 1..k |->
        [ start |-> IF i = 1 THEN 0 ELSE zellerStop(len, k, i - 2),
          stop  |-> zellerStop(len, k, i - 1) ] ]

\* self._split
split(len, k) == zeller(len, k)

\* config_iterators: the items iter(n) yields, in order.
forward(cnt) == [ k \in 1..cnt |-> k - 1 ]
backward(cnt) == [ k \in 1..cnt |-> cnt - k ]
\* forward order with a None before every index
sparse(cnt) == [ k \in 1..(2 * cnt) |-> IF k % 2 = 1 THEN NoneIndex ELSE (k \div 2) - 1 ]

Iterators == { "forward", "backward", "sparse" }
Yield(iterator, cnt) ==
    CASE iterator = "forward" -> forward(cnt)
      [] iterator = "backward" -> backward(cnt)
      [] iterator = "sparse" -> sparse(cnt)

\* outcome_cache: lookup and add, keyed by the content of the configuration.
lookup(c) == IF c \in DOMAIN cache THEN cache[c] ELSE None
add(c, outcome) == [ x \in DOMAIN cache \cup {c} |-> IF x = c THEN outcome ELSE cache[x] ]

----------------------------------------------------------------------------
\* The tester.  Verdicts(c): what self._test(c, id) may return now: the
\* verdict it gave before, or any of its values (a value outside the
\* contract at most MaxMalformed times).

Malformed == { x \in DOMAIN oracle : oracle[x] \notin {PASS, FAIL} }
Verdicts(c) ==
    IF c \in DOMAIN oracle THEN { oracle[c] }
    ELSE IF Cardinality(Malformed) < MaxMalformed THEN oracleValues
    ELSE oracleValues \cap {PASS, FAIL}
Reveal(c, outcome) ==
    [ x \in DOMAIN oracle \cup {c} |-> IF x = c THEN outcome ELSE oracle[x] ]

\* AbstractDD._lookup_cache(config, config_id)
LookupCache(c) == lookup(c)

\* AbstractDD._test_config(config, config_id), with `outcome` the value the
\* tester returns: the call is logged, and the outcome is stored unless the
\* prefixed id holds the token 'assert'.
TestConfig(c, config_id, kind, outcome) ==
    LET full_id == id_prefix \o config_id
    IN  /\ outcome \in Verdicts(c)
        /\ oracle' = Reveal(c, outcome)
        /\ log' = Append(log, [config |-> c, id |-> full_id, kind |-> kind,
                               outcome |-> outcome])
        /\ cache' = IF ~HasAssert(full_id) THEN add(c, outcome) ELSE cache

----------------------------------------------------------------------------
\* Pieces of ddmin and of the reduce methods.

\* subsets[i] is config[slices[i]] (i from 1 here, from 0 in the source).
Subsets(cfg, sl) ==
    [ k \in 1..Len(sl) |-> SubSeq(cfg, sl[k].start + 1, sl[k].stop) ]

RECURSIVE Reverse(_)
Reverse(s) == IF s = << >> THEN << >> ELSE Reverse(Tail(s)) \o << Head(s) >>

\* (mutant: the kept slices are concatenated last to first)
NewConfigReversed(cfg, ns) == Concat(Reverse(Subsets(cfg, ns)))

\* config = [c for s in next_slices for c in config[s]]
NewConfig(cfg, ns) == Concat(Subsets(cfg, ns))

\* the loop of abstract_dd.py:72-77: slices of the same sizes, from 0
RECURSIVE RebuildFrom(_, _)
RebuildFrom(ns, start) ==
    IF ns = << >> THEN << >>
    ELSE LET stop == start + Head(ns).stop - Head(ns).start
         IN  << [start |-> start, stop |-> stop] >> \o RebuildFrom(Tail(ns), stop)

\* (mutant: the returned slices are kept, not translated to origin 0)
RebuildSlicesKept(ns) == ns

RebuildSlices(ns) == RebuildFrom(ns, 0)

\* (mutant: the number of slices is not capped by len(config))
FinerSlicesUncapped(cfg, sl, ratio) == split(Len(cfg), Len(sl) * ratio)

\* (mutant: the number of slices is not multiplied by the ratio)
FinerSlicesSame(cfg, sl, ratio) == split(Len(cfg), Min(Len(cfg), Len(sl)))

\* next_slices = self._split(len(config), min(len(config), len(slices) * n))
FinerSlices(cfg, sl, ratio) == split(Len(cfg), Min(Len(cfg), Len(sl) * ratio))

\* complement_offset = (complement_offset * len(next_slices)) / len(slices):
\* Python 3's true division, kept as an exact rational.
RescaleOffset(off, nextLen, curLen) == Rat(off[1] * nextLen, off[2] * curLen)

\* (mutant: the sum is not reduced modulo the number of subsets)
OffsetIndexUnwrapped(i, off, cnt) == ((i * off[2]) + off[1]) \div off[2]

\* (mutant: the offset is left out of the index)
OffsetIndexUnrotated(i, off, cnt) == i % cnt

\* (mutant: the rotated index is clamped to the last slice, not wrapped)
OffsetIndexClamped(i, off, cnt) == Min(((i * off[2]) + off[1]) \div off[2], cnt - 1)

\* i = int((i + complement_offset) % n): the floor of a non-negative number
OffsetIndex(i, off, cnt) == (((i * off[2]) + off[1]) \div off[2]) % cnt

\* (mutant: the subset left out is always the first one)
ComplementOfFirst(subsets, i) == Concat(Tail(subsets))

\* complement = [c for si, s in enumerate(subsets) for c in s if si != i]
Complement(subsets, i) ==
    Concat([ k \in 1..(Len(subsets) - 1) |->
               IF k <= i THEN subsets[k] ELSE subsets[k + 1] ])

\* (mutant: no slice is dropped)
WithoutSliceNone(sl, i) == sl

\* (mutant: the slice after the tested one is dropped)
WithoutSliceNext(sl, i) ==
    LET j == (i + 1) % Len(sl) IN SubSeq(sl, 1, j) \o SubSeq(sl, j + 2, Len(sl))

\* subsets[:i] + subsets[i + 1:], as slices
WithoutSlice(sl, i) == SubSeq(sl, 1, i) \o SubSeq(sl, i + 2, Len(sl))

\* (mutant: everything but PASS counts as a failure)
IsFailNotPass(outcome) == outcome # PASS

\* outcome == self.FAIL
IsFail(outcome) == outcome = FAIL

\* (mutant: only the empty configuration ends the minimization)
IsReducedEmpty(cfg) == Len(cfg) < 1

\* len(config) < 2
IsReduced(cfg) == Len(cfg) < 2

\* (mutant: both reduce methods are the subset-based one)
ReduceMethodSubset(ph) == "subset"

\* which reduce method self._first_reduce / self._second_reduce is
ReduceMethod(ph) ==
    IF subset_first
    THEN (IF ph = 1 THEN "subset" ELSE "complement")
    ELSE (IF ph = 1 THEN "complement" ELSE "subset")

----------------------------------------------------------------------------
\* Initial states: a LightDD object is constructed and ddmin(config0, n) is
\* entered (abstract_dd.py:50-51).

\* the locals of ddmin at its entry, and the history of the invocation
Enter ==
    /\ config = config0
    /\ slices = << >>
    /\ complement_offset = <<0, 1>>
    /\ run = 0
    /\ next_slices = NoSlices
    /\ pc = "assert"
    /\ phase = 1
    /\ it = 1
    /\ log = << >>
    /\ probes = << >>
    /\ reductions = << >>
    /\ splitCalls = 0

\* self._cache of a new object: ConfigCache()
EmptyCache == [ x \in {} |-> PASS ]

\* Any deterministic tester with outcomes in `values`; its verdict on the
\* empty configuration is fixed from the start.
InitWith(values, ratios) ==
    /\ config0 \in Configs
    /\ n \in ratios
    /\ subset_first \in BOOLEAN
    /\ subset_iterator \in Iterators
    /\ complement_iterator \in Iterators
    /\ id_prefix \in IdPrefixes
    /\ oracleValues = values
    /\ \E v \in {PASS, FAIL} : oracle = [ x \in { << >> } |-> v ]
    /\ cache = EmptyCache
    /\ invocation = 1
    /\ returned = << >>
    /\ Enter

Init == InitWith({PASS, FAIL}, 1..MaxRatio)

\* A tester that may also return a value that is neither PASS nor FAIL; the
\* classic split ratio.
InitMalformed == InitWith({PASS, FAIL, UNKNOWN}, {2})

\* The testers of the reference scenarios: FAIL iff the units of the
\* configuration, as a multiset, contain the multiset m (m is given as a
\* non-decreasing sequence of units).
Interesting ==
    { m \in UNION { [1..k -> 1..MaxLen] : k \in 1..MaxInteresting } :
        \A i \in 1..(Len(m) - 1) : m[i] <= m[i + 1] }

Count(u, c) == Cardinality({ i \in DOMAIN c : c[i] = u })
Contains(c, m) == \A i \in DOMAIN m : Count(m[i], c) >= Count(m[i], m)
SameUnits(c, m) == Contains(c, m) /\ Len(c) = Len(m)

RECURSIVE Select(_, _, _)
Select(c, S, i) ==
    IF i > Len(c) THEN << >>
    ELSE (IF i \in S THEN << c[i] >> ELSE << >>) \o Select(c, S, i + 1)
Subsequences(c) == { Select(c, S, 1) : S \in SUBSET DOMAIN c }

SupersetOracle(c0, m) ==
    [ c \in Subsequences(c0) |-> IF Contains(c, m) THEN FAIL ELSE PASS ]

InitSuperset ==
    /\ config0 \in Configs
    /\ n = 2
    /\ subset_first \in BOOLEAN
    /\ subset_iterator \in Iterators
    /\ complement_iterator \in Iterators
    /\ id_prefix \in IdPrefixes
    /\ oracleValues = {PASS, FAIL}
    /\ \E m \in Interesting : oracle = SupersetOracle(config0, m)
    /\ cache = EmptyCache
    /\ invocation = 1
    /\ returned = << >>
    /\ Enter

----------------------------------------------------------------------------
\* The top of the outer loop (abstract_dd.py:53-65).  Each of the three
\* actions starts with the assertion test of line 54.

AssertId == << Tok("r", run), AssertTok >>

\* The assertion fails: AssertionError leaves ddmin.
AssertionFails ==
    /\ pc = "assert"
    /\ \E outcome \in Verdicts(config) :
        /\ TestConfig(config, AssertId, "assert", outcome)
        /\ ~IsFail(outcome)
    /\ pc' = "aborted"
    /\ UNCHANGED <<params, locals, phase, it, probes, reductions, splitCalls,
                   invocation, returned>>

\* len(config) < 2: return config
ReturnSingle ==
    /\ pc = "assert"
    /\ \E outcome \in Verdicts(config) :
        /\ TestConfig(config, AssertId, "assert", outcome)
        /\ IsFail(outcome)
    /\ IsReduced(config)
    /\ pc' = "done"
    /\ returned' = Append(returned, config)
    /\ UNCHANGED <<params, locals, phase, it, probes, reductions, splitCalls,
                   invocation>>

\* Otherwise the run starts: split if there are fewer than 2 slices, then
\* enter self._reduce_config with self._first_reduce.
BeginRun ==
    /\ pc = "assert"
    /\ \E outcome \in Verdicts(config) :
        /\ TestConfig(config, AssertId, "assert", outcome)
        /\ IsFail(outcome)
    /\ ~IsReduced(config)
    /\ IF Len(slices) < 2
       THEN /\ slices' = split(Len(config), Min(Len(config), n))
            /\ splitCalls' = splitCalls + 1
       ELSE UNCHANGED <<slices, splitCalls>>
    /\ pc' = "reduce"
    /\ phase' = 1
    /\ it' = 1
    /\ probes' = << >>
    /\ UNCHANGED <<params, config, complement_offset, run, next_slices,
                   reductions, invocation, returned>>

----------------------------------------------------------------------------
\* LightDD._reduce_config: self._first_reduce, then self._second_reduce if
\* the first returned None (light_dd.py:61-65).  A reduce method returns
\* (result, offset); Return hands that to the caller.

\* the record of a reduce method's return: a returned slice list is noted with
\* the run, the method, the index of the FAIL candidate (that of the probe
\* just made) and the number of slices of the step.
Returned(result) ==
    IF result = NoSlices THEN reductions
    ELSE Append(reductions, [run |-> run, kind |-> ReduceMethod(phase),
                             index |-> probes'[Len(probes')].index,
                             count |-> Len(slices)])

\* (mutant: self._second_reduce runs whatever self._first_reduce returned)
ReturnAlwaysSecond(result, offset) ==
    IF phase = 1
    THEN /\ phase' = 2
         /\ it' = 1
         /\ complement_offset' = offset
         /\ reductions' = Returned(result)
         /\ UNCHANGED <<pc, next_slices>>
    ELSE /\ pc' = "update"
         /\ next_slices' = result
         /\ complement_offset' = offset
         /\ reductions' = Returned(result)
         /\ UNCHANGED <<phase, it>>

Return(result, offset) ==
    IF result = NoSlices /\ phase = 1
    THEN /\ phase' = 2
         /\ it' = 1
         /\ complement_offset' = offset
         /\ reductions' = Returned(result)
         /\ UNCHANGED <<pc, next_slices>>
    ELSE /\ pc' = "update"
         /\ next_slices' = result
         /\ complement_offset' = offset
         /\ reductions' = Returned(result)
         /\ UNCHANGED <<phase, it>>

Continue ==
    /\ it' = it + 1
    /\ UNCHANGED <<pc, phase, next_slices, complement_offset, reductions>>

\* outcome = self._lookup_cache(c, id) or self._test_config(c, id)
Probe(c, config_id, kind, index, outcome) ==
    LET cached == LookupCache(c)
    IN  /\ IF cached # None
           THEN /\ outcome = cached
                /\ UNCHANGED <<oracle, log, cache>>
           ELSE TestConfig(c, config_id, kind, outcome)
        /\ probes' = Append(probes, [kind |-> kind, index |-> index, config |-> c,
                                     outcome |-> outcome, hit |-> cached # None])

Outcomes == oracleValues

\* LightDD._reduce_to_subset: one pass of the loop body of light_dd.py:79-90.
SubsetItems == Yield(subset_iterator, Len(slices))

SubsetNone ==
    /\ pc = "reduce" /\ ReduceMethod(phase) = "subset"
    /\ it <= Len(SubsetItems) /\ SubsetItems[it] = NoneIndex
    /\ Continue
    /\ UNCHANGED <<params, oracle, cache, config, slices, run, log, probes,
                   splitCalls, invocation, returned>>

SubsetProbe ==
    /\ pc = "reduce" /\ ReduceMethod(phase) = "subset"
    /\ it <= Len(SubsetItems) /\ SubsetItems[it] # NoneIndex
    /\ LET i == SubsetItems[it]
           subset == Subsets(config, slices)[i + 1]
       IN  \E outcome \in Outcomes :
             /\ Probe(subset, << Tok("r", run), Tok("s", i) >>, "s", i, outcome)
             /\ IF IsFail(outcome)
                THEN Return(Some(<< slices[i + 1] >>), <<0, 1>>)
                ELSE Continue
    /\ UNCHANGED <<params, config, slices, run, splitCalls, invocation, returned>>

\* the loop ended: return None, complement_offset
SubsetNotFound ==
    /\ pc = "reduce" /\ ReduceMethod(phase) = "subset"
    /\ it > Len(SubsetItems)
    /\ Return(NoSlices, complement_offset)
    /\ UNCHANGED <<params, oracle, cache, config, slices, run, log, probes,
                   splitCalls, invocation, returned>>

\* LightDD._reduce_to_complement: one pass of the loop body of
\* light_dd.py:106-118.
ComplementItems == Yield(complement_iterator, Len(slices))

ComplementNone ==
    /\ pc = "reduce" /\ ReduceMethod(phase) = "complement"
    /\ it <= Len(ComplementItems) /\ ComplementItems[it] = NoneIndex
    /\ Continue
    /\ UNCHANGED <<params, oracle, cache, config, slices, run, log, probes,
                   splitCalls, invocation, returned>>

ComplementProbe ==
    /\ pc = "reduce" /\ ReduceMethod(phase) = "complement"
    /\ it <= Len(ComplementItems) /\ ComplementItems[it] # NoneIndex
    /\ LET i == OffsetIndex(ComplementItems[it], complement_offset, Len(slices))
           complement == Complement(Subsets(config, slices), i)
       IN  \E outcome \in Outcomes :
             /\ Probe(complement, << Tok("r", run), Tok("c", i) >>, "c", i, outcome)
             /\ IF IsFail(outcome)
                THEN Return(Some(WithoutSlice(slices, i)), <<i, 1>>)
                ELSE Continue
    /\ UNCHANGED <<params, config, slices, run, splitCalls, invocation, returned>>

ComplementNotFound ==
    /\ pc = "reduce" /\ ReduceMethod(phase) = "complement"
    /\ it > Len(ComplementItems)
    /\ Return(NoSlices, complement_offset)
    /\ UNCHANGED <<params, oracle, cache, config, slices, run, log, probes,
                   splitCalls, invocation, returned>>

----------------------------------------------------------------------------
\* The rest of the loop body (abstract_dd.py:69-93).

\* next_slices is not None: the configuration is replaced, the slices rebuilt
Reduced ==
    /\ pc = "update"
    /\ next_slices # NoSlices
    /\ run < MaxRun
    /\ config' = NewConfig(config, next_slices[1])
    /\ slices' = RebuildSlices(next_slices[1])
    /\ run' = run + 1
    /\ pc' = "assert"
    /\ UNCHANGED <<params, oracle, cache, complement_offset, next_slices, phase,
                   it, log, probes, reductions, splitCalls, invocation, returned>>

\* len(slices) < len(config): a finer split, the offset rescaled
IncreaseGranularity ==
    /\ pc = "update"
    /\ next_slices = NoSlices
    /\ Len(slices) < Len(config)
    /\ run < MaxRun
    /\ LET next == FinerSlices(config, slices, n)
       IN  /\ complement_offset' = RescaleOffset(complement_offset, Len(next), Len(slices))
           /\ slices' = next
           /\ next_slices' = Some(next)
    /\ splitCalls' = splitCalls + 1
    /\ run' = run + 1
    /\ pc' = "assert"
    /\ UNCHANGED <<params, oracle, cache, config, phase, it, log, probes,
                   reductions, invocation, returned>>

\* the finest split found nothing: return config
Finished ==
    /\ pc = "update"
    /\ next_slices = NoSlices
    /\ ~(Len(slices) < Len(config))
    /\ pc' = "done"
    /\ returned' = Append(returned, config)
    /\ UNCHANGED <<params, oracle, cache, locals, phase, it, log, probes,
                   reductions, splitCalls, invocation>>

\* The caller invokes ddmin again on the same object, with the same
\* arguments: self._cache (and the tester) are those of the first invocation.
InvokeAgain ==
    /\ pc = "done"
    /\ invocation < MaxInvocations
    /\ invocation' = invocation + 1
    /\ config' = config0
    /\ slices' = << >>
    /\ complement_offset' = <<0, 1>>
    /\ run' = 0
    /\ next_slices' = NoSlices
    /\ pc' = "assert"
    /\ phase' = 1
    /\ it' = 1
    /\ log' = << >>
    /\ probes' = << >>
    /\ reductions' = << >>
    /\ splitCalls' = 0
    /\ UNCHANGED <<params, oracle, cache, returned>>

Next ==
    \/ AssertionFails
    \/ ReturnSingle
    \/ BeginRun
    \/ SubsetNone
    \/ SubsetProbe
    \/ SubsetNotFound
    \/ ComplementNone
    \/ ComplementProbe
    \/ ComplementNotFound
    \/ Reduced
    \/ IncreaseGranularity
    \/ Finished

\* One invocation of ddmin on a new object.
Spec == Init /\ [][Next]_vars

\* One invocation with a split ratio of 2 or more and the default id prefix,
\* under the scheduling of a sequential program: a step that can be taken is
\* taken.
InitFair == InitWith({PASS, FAIL}, 2..MaxRatio) /\ id_prefix = << >>
FairSpec == InitFair /\ [][Next]_vars /\ WF_vars(Next)

\* MaxInvocations invocations of ddmin on the same object.
NextAgain ==
    \/ Next
    \/ InvokeAgain

SpecAgain == Init /\ [][NextAgain]_vars

\* The call of abstract_dd.py:67 as the source has it.  ddmin passes four
\* positional arguments; LightDD._reduce_config, which overrides the method
\* of AbstractDD, declares three parameters besides self.  Python binds
\* positional arguments to parameters one to one and raises TypeError when
\* their numbers differ.
ReduceConfigArguments == << "run", "config", "slices", "complement_offset" >>
ReduceConfigParameters == << "run", "subsets", "complement_offset" >>
Binds(arguments, parameters) == Len(arguments) = Len(parameters)

\* The top of a run up to and including that call: the assertion test holds,
\* the configuration has 2 or more units, it is split if need be, and
\* self._reduce_config is called; a TypeError leaves ddmin.
BeginRunAsWritten ==
    /\ pc = "assert"
    /\ \E outcome \in Verdicts(config) :
        /\ TestConfig(config, AssertId, "assert", outcome)
        /\ IsFail(outcome)
    /\ ~IsReduced(config)
    /\ IF Len(slices) < 2
       THEN /\ slices' = split(Len(config), Min(Len(config), n))
            /\ splitCalls' = splitCalls + 1
       ELSE UNCHANGED <<slices, splitCalls>>
    /\ pc' = IF Binds(ReduceConfigArguments, ReduceConfigParameters)
             THEN "reduce" ELSE "raised"
    /\ phase' = 1
    /\ it' = 1
    /\ probes' = << >>
    /\ UNCHANGED <<params, config, complement_offset, run, next_slices,
                   reductions, invocation, returned>>

NextAsWritten ==
    \/ AssertionFails
    \/ ReturnSingle
    \/ BeginRunAsWritten

\* One invocation of ddmin on a LightDD object, with the call of the reduce
\* step as written.  (Spec and the specifications above join the two classes
\* the way AbstractDD._reduce_config documents the call.)
SpecAsWritten == Init /\ [][NextAsWritten]_vars

\* One invocation with a multiset-superset tester.
SpecSuperset == InitSuperset /\ [][Next]_vars

\* One invocation with a tester that may break the PASS/FAIL contract.
SpecMalformed == InitMalformed /\ [][Next]_vars

----------------------------------------------------------------------------
\* Vocabulary of the properties.

\* the configuration the current invocation returned (pc = "done")
Result == returned[Len(returned)]

\* the tester's verdict on c is v
Verdict(c, v) == c \in DOMAIN oracle /\ oracle[c] = v

\* removing any single unit of c yields a configuration that tests PASS
OneMinimal(c) == \A k \in 1..Len(c) : Verdict(RemoveAt(c, k), PASS)

\* a is an initial part of b
IsPrefix(a, b) == Len(a) <= Len(b) /\ a = SubSeq(b, 1, Len(a))

\* the indices an iterator yields, without the None items
Indices(items) == SelectSeq(items, LAMBDA x : x # NoneIndex)

\* the candidates a reduce step is to probe when it is given the current
\* slices and offset, as <<kind, index>> in order: those of the first
\* reduce method, then those of the second
SubsetPlan ==
    LET idx == Indices(Yield(subset_iterator, Len(slices)))
    IN  [ k \in DOMAIN idx |-> << "s", idx[k] >> ]
ComplementPlan ==
    LET idx == Indices(Yield(complement_iterator, Len(slices)))
    IN  [ k \in DOMAIN idx |->
            << "c", (idx[k] + (complement_offset[1] \div complement_offset[2]))
                        % Len(slices) >> ]
Plan == IF subset_first THEN SubsetPlan \o ComplementPlan
                        ELSE ComplementPlan \o SubsetPlan

\* the probes of the current run, as <<kind, index>>
Probed(p) == [ k \in DOMAIN p |-> << p[k].kind, p[k].index >> ]

\* sl is a list of contiguous, non-empty half-open ranges, in increasing
\* order, that cover [0, len) exactly
IsPartition(sl, len) ==
    /\ sl # << >>
    /\ sl[1].start = 0
    /\ sl[Len(sl)].stop = len
    /\ \A k \in DOMAIN sl : sl[k].start < sl[k].stop
    /\ \A k \in 1..(Len(sl) - 1) : sl[k].stop = sl[k + 1].start

----------------------------------------------------------------------------
C7_AlreadyMinimal ==
    Len(config0) < 2 =>
        /\ pc \in {"assert", "done", "aborted"}
        /\ splitCalls = 0
        /\ probes = << >>
        /\ cache = EmptyCache
        /\ pc = "assert" => log = << >>
        /\ pc # "assert" => Len(log) = 1 /\ log[1].kind = "assert"
        /\ pc = "done" =>
              /\ returned = << config0 >>
              /\ run = 0
              /\ log[1].outcome = FAIL

\* a configuration of one unit was returned
C7_Witness == pc = "done" /\ Len(config0) = 1 /\ returned = << config0 >>

\* C9: when an assertion test does not return FAIL, ddmin is left at once:
\* nothing is returned, the failed assertion test is the last call of the
\* tester (no probe follows it), the cache is as it was (empty: only the
\* first test can fail), and no step of ddmin follows.
C9_BreachIsFatal ==
    pc = "aborted" =>
        /\ returned = << >>
        /\ probes = << >>
        /\ log # << >>
        /\ log[Len(log)].kind = "assert"
        /\ log[Len(log)].config = config
        /\ ~IsFail(log[Len(log)].outcome)
        /\ cache = EmptyCache
        /\ ~ENABLED Next

\* the assertion test of a configuration of 2 or more units returned PASS
C9_Witness == pc = "aborted" /\ Len(config0) >= 2 /\ log[1].outcome = PASS

C17_Rebuild ==
    [][ /\ (pc = "assert" /\ pc' \notin {"assert", "aborted", "done"}) =>
              /\ pc' = "reduce"
              /\ splitCalls' # splitCalls <=> Len(slices) < 2
              /\ Len(slices) < 2 => Len(slices') = Min(Len(config), n)
              /\ Len(slices) >= 2 => slices' = slices
        /\ (pc = "update" /\ next_slices # NoSlices /\ pc' = "assert") =>
              LET ns == next_slices[1]
              IN  /\ \A k \in DOMAIN ns :
                        0 <= ns[k].start /\ ns[k].start < ns[k].stop
                                         /\ ns[k].stop <= Len(config)
                  /\ config' = Concat([ k \in DOMAIN ns |->
                        SubSeq(config, ns[k].start + 1, ns[k].stop) ])
                  /\ Len(slices') = Len(ns)
                  /\ splitCalls' = splitCalls
                  /\ \A k \in DOMAIN ns :
                        /\ slices'[k].stop - slices'[k].start = ns[k].stop - ns[k].start
                        /\ slices'[k].start = IF k = 1 THEN 0 ELSE slices'[k - 1].stop
        /\ (pc = "update" /\ next_slices # NoSlices) => pc' = "assert" ]_vars

====
